---- MODULE Spec2Model ----
(***************************************************************************)
(* Model of the download service of src/app.py: the job registry           *)
(* (download_progress), the POST /api/download handler, the worker thread  *)
(* with its progress callback, the handlers of GET /api/progress,          *)
(* GET /api/download-file and POST /api/video-info, and the sweep of old   *)
(* files (clean_old_files).                                                *)
(*                                                                         *)
(* Conventions                                                             *)
(*  - strings that the code inspects character by character (URLs) are     *)
(*    sequences of one-character strings;                                  *)
(*  - time.time() is held in clock ticks (now), finer than a millisecond;  *)
(*    a job id                                                             *)
(*    f"download_{int(time.time() * 1000)}" is held as that integer        *)
(*    number of milliseconds, the prefix being constant;                   *)
(*  - 'progress' is held in tenths of a percent (round(percent, 1) keeps   *)
(*    one decimal), so the literal 100 of the code is 1000 here;           *)
(*  - a file path os.path.join(TEMP_DOWNLOAD_FOLDER,                       *)
(*    'yt_download_<id>_<title>.<ext>') is the record                      *)
(*    [prefix, id, title]; Python's None is the record None.               *)
(***************************************************************************)
EXTENDS Integers, Sequences, FiniteSets, Bags, TLC

(***************************************************************************)
(* Bounds of the model.                                                    *)
(***************************************************************************)
\* accepted POST /api/download requests (one worker thread each)
MaxJobs == 2
\* the resolution of the clock: ticks in one millisecond
TicksPerMilli == 2
\* clock advances of MAX_FILE_AGE seconds
MaxBigTicks == 1
\* the size in bytes of the stream a backend downloads
TotalBytes == 2

(***************************************************************************)
(* Program constants.                                                      *)
(***************************************************************************)
MAX_FILE_AGE == 3600

\* the readings of the clock within one period of MAX_FILE_AGE seconds:
\* two readings that fall into the same millisecond
Offsets == {0, 1}

\* the clock is held in ticks of 1/TicksPerMilli of a millisecond
TicksPerSecond == 1000 * TicksPerMilli
BigTick == MAX_FILE_AGE * TicksPerSecond

None == [none |-> TRUE]

(***************************************************************************)
(* Character sequences and the regular expressions of the URL functions.   *)
(***************************************************************************)
IdChars == {"0", "1", "2", "3", "4", "5", "6", "7", "8", "9", "A", "B", "C", "D", "E", "F", "G", "H", "I", "J", "K", "L", "M", "N", "O", "P", "Q", "R", "S", "T", "U", "V", "W", "X", "Y", "Z", "a", "b", "c", "d", "e", "f", "g", "h", "i", "j", "k", "l", "m", "n", "o", "p", "q", "r", "s", "t", "u", "v", "w", "x", "y", "z", "_", "-"}

Whitespace == {" "}

\* the literal lit occurs in s at position i
LitAt(s, i, lit) ==
    /\ i >= 1
    /\ i + Len(lit) - 1 <= Len(s)
    /\ \A k \in 1..Len(lit) : s[i + k - 1] = lit[k]

\* A pattern that is a concatenation of groups, each group a set of
\* alternative literals (an optional group holds the empty literal):
\* the positions after a match of groups n..Len(pat) that starts at i.
RECURSIVE EndsFrom(_, _, _, _)
EndsFrom(s, i, pat, n) ==
    IF n > Len(pat) THEN {i}
    ELSE UNION { EndsFrom(s, i + Len(lit), pat, n + 1) :
                 lit \in { l \in pat[n] : LitAt(s, i, l) } }

\* re.search(pattern, s) finds a match
Search(s, pat) == \E i \in 1..(Len(s) + 1) : EndsFrom(s, i, pat, 1) # {}

\* r'(https?://)?(www\.)?(youtube|youtu|youtube-nocookie)\.(com|be)/'
YoutubePattern1 ==
    << { <<"h", "t", "t", "p", ":", "/", "/">>,
         <<"h", "t", "t", "p", "s", ":", "/", "/">>, <<>> },
       { <<"w", "w", "w", ".">>, <<>> },
       { <<"y", "o", "u", "t", "u", "b", "e">>,
         <<"y", "o", "u", "t", "u">>,
         <<"y", "o", "u", "t", "u", "b", "e", "-", "n", "o", "c", "o", "o", "k", "i", "e">> },
       { <<".">> },
       { <<"c", "o", "m">>, <<"b", "e">> },
       { <<"/">> } >>

\* r'(https?://)?(m\.)?youtube\.com/'
YoutubePattern2 ==
    << { <<"h", "t", "t", "p", ":", "/", "/">>,
         <<"h", "t", "t", "p", "s", ":", "/", "/">>, <<>> },
       { <<"m", ".">>, <<>> },
       { <<"y", "o", "u", "t", "u", "b", "e", ".", "c", "o", "m", "/">> } >>

is_valid_youtube_url(url) ==
    \E pattern \in {YoutubePattern1, YoutubePattern2} : Search(url, pattern)

\* the prefixes that introduce the 11-character video id in the three
\* patterns of clean_youtube_url, in the order the code tries them:
\* r'(?:v=|/)([0-9A-Za-z_-]{11}).*', r'(?:embed/)([0-9A-Za-z_-]{11})',
\* r'(?:watch\?v=)([0-9A-Za-z_-]{11})'
CleanPatterns ==
    << { <<"v", "=">>, <<"/">> },
       { <<"e", "m", "b", "e", "d", "/">> },
       { <<"w", "a", "t", "c", "h", "?", "v", "=">> } >>

VideoIdLen == 11

\* the positions where (?:prefix)([0-9A-Za-z_-]{11}) matches, as the
\* position of the first character of group 1
IdStarts(url, prefixes) ==
    { j \in 1..(Len(url) + 1) :
        /\ \E lit \in prefixes : LitAt(url, j - Len(lit), lit)
        /\ j + VideoIdLen - 1 <= Len(url)
        /\ \A k \in 0..(VideoIdLen - 1) : url[j + k] \in IdChars }

\* re.search returns the leftmost match; both alternatives of a prefix
\* group end in different characters, so the start of group 1 decides it
LeftmostStart(url, prefixes) ==
    CHOOSE j \in IdStarts(url, prefixes) :
        \A k \in IdStarts(url, prefixes) :
            LET pj == CHOOSE lit \in prefixes : LitAt(url, j - Len(lit), lit)
                pk == CHOOSE lit \in prefixes : LitAt(url, k - Len(lit), lit)
            IN  j - Len(pj) <= k - Len(pk)

WatchPrefix == <<"h", "t", "t", "p", "s", ":", "/", "/", "w", "w", "w", ".", "y", "o", "u", "t", "u", "b", "e", ".", "c", "o", "m", "/", "w", "a", "t", "c", "h", "?", "v", "=">>

RECURSIVE CleanFrom(_, _)
CleanFrom(url, n) ==
    IF n > Len(CleanPatterns) THEN url
    ELSE IF IdStarts(url, CleanPatterns[n]) # {}
         THEN LET j == LeftmostStart(url, CleanPatterns[n])
              IN  WatchPrefix \o SubSeq(url, j, j + VideoIdLen - 1)
         ELSE CleanFrom(url, n + 1)

clean_youtube_url(url) == CleanFrom(url, 1)

\* str.strip()
RECURSIVE Strip(_)
Strip(s) ==
    IF s = <<>> THEN s
    ELSE IF Head(s) \in Whitespace THEN Strip(Tail(s))
    ELSE IF s[Len(s)] \in Whitespace THEN Strip(SubSeq(s, 1, Len(s) - 1))
    ELSE s

(***************************************************************************)
(* Request inputs.                                                         *)
(***************************************************************************)
UrlWatch == <<"h", "t", "t", "p", "s", ":", "/", "/", "w", "w", "w", ".", "y", "o", "u", "t", "u", "b", "e", ".", "c", "o", "m", "/", "w", "a", "t", "c", "h", "?", "v", "=", "d", "Q", "w", "4", "w", "9", "W", "g", "X", "c", "Q">>
UrlOther == <<"h", "t", "t", "p", "s", ":", "/", "/", "e", "x", "a", "m", "p", "l", "e", ".", "c", "o", "m", "/", "c", "l", "i", "p">>
UrlVimeo == <<"h", "t", "t", "p", "s", ":", "/", "/", "v", "i", "m", "e", "o", ".", "c", "o", "m", "/", "a", "b", "c", "d", "e", "f", "g", "h", "i", "j", "k">>
UrlBlank == <<" ">>

\* the values of 'url' in a request body
Urls == {<<>>, UrlBlank, UrlWatch, UrlOther, UrlVimeo}

\* a JSON value for 'quality': a string, or something that is no string
QualityBest == [isstr |-> TRUE, text |-> "Mejor calidad", endswith_p |-> FALSE]
QualityNumber == [isstr |-> FALSE, text |-> "720", endswith_p |-> FALSE]

\* request.get_json(): no usable body (None or {}), or a JSON object;
\* data.get('url', '') of an object without the key is ''
NoData == [nodata |-> TRUE]
Bodies ==
    {NoData} \cup
    [url : Urls,
     format_type : {"video"},
     quality : {QualityBest, QualityNumber}]

\* url.strip() of these values, and the two URL functions tabulated over
\* them: the handlers call the functions with these arguments only
StrippedUrls == { Strip(url) : url \in Urls }
valid_of == [url \in StrippedUrls |-> is_valid_youtube_url(url)]
clean_of == [url \in StrippedUrls |-> clean_youtube_url(url)]

\* the bodies of POST /api/video-info, which reads 'url' only
InfoBodies == {NoData} \cup [url : Urls]

(***************************************************************************)
(* State.                                                                  *)
(***************************************************************************)
VARIABLES
    now,                \* time.time(), in clock ticks
    server,             \* position of the main thread: "boot", "serving"
    download_progress,  \* the registry: job id -> entry
    workers,            \* the running worker threads: a bag of their local states
    started,            \* the number of worker threads started so far
    files,              \* the files of TEMP_DOWNLOAD_FOLDER: path -> st_mtime
    reaped,             \* history: the output files of completed jobs that
                        \* clean_old_files has unlinked
    getfile,            \* the GET /api/download-file request being handled
    response            \* what the step just taken has put out, if anything:
                        \* the HTTP response it has sent, or the lines a
                        \* sweep has logged

vars == <<now, server, download_progress, workers, started, files, reaped,
          getfile, response>>

\* os.path.join(TEMP_DOWNLOAD_FOLDER, f'yt_download_{download_id}_%(title)s.%(ext)s')
output_template(download_id, title) ==
    [prefix |-> "yt_download_", id |-> download_id, title |-> title]

\* int(time.time() * 1000)
download_id_at(t) == t \div TicksPerMilli

\* the titles the backend reports for a video
Titles == {"clip"}

\* a file a previous run of the server left behind, older than MAX_FILE_AGE
\* when the server starts
OldFile == output_template(-1, "clip")
OldFileMtime == 0 - (BigTick + 1)

\* a file of another program in the same folder (tempfile.gettempdir() by
\* default), as old as OldFile
ForeignFile == [prefix |-> "tmp", id |-> -1, title |-> "clip"]

\* Path(TEMP_DOWNLOAD_FOLDER).glob("yt_download_*")
Globbed(fs) == { f \in DOMAIN fs : f.prefix = "yt_download_" }

\* line 85 with >= in the place of >
IsOld_atleast(fs, f, current_time) ==
    current_time - fs[f] >= MAX_FILE_AGE * TicksPerSecond

\* line 85: current_time - file.stat().st_mtime > MAX_FILE_AGE
IsOld(fs, f, current_time) == current_time - fs[f] > MAX_FILE_AGE * TicksPerSecond

\* a function without the keys in gone
Without(fs, gone) == [f \in DOMAIN fs \ gone |-> fs[f]]

\* a step that answers no request
NoResponse == [route |-> "none", code |-> 0]

Init ==
    /\ now = 0
    /\ server = "boot"
    /\ download_progress = <<>>
    /\ workers = EmptyBag
    /\ started = 0
    /\ files = (OldFile :> OldFileMtime) @@ (ForeignFile :> OldFileMtime)
    /\ reaped = {}
    /\ getfile = [pc |-> "idle"]
    /\ response = NoResponse

(***************************************************************************)
(* The clock.                                                              *)
(***************************************************************************)
TickSmall ==
    /\ (now % BigTick) + 1 \in Offsets
    /\ now' = now + 1
    /\ UNCHANGED <<server, download_progress, workers, started, files, reaped, getfile>>
    /\ response' = NoResponse

TickBig ==
    /\ now \div BigTick < MaxBigTicks
    /\ now' = now + BigTick
    /\ UNCHANGED <<server, download_progress, workers, started, files, reaped, getfile>>
    /\ response' = NoResponse

(***************************************************************************)
(* clean_old_files (lines 77-95): every globbed file that is old is        *)
(* unlinked; stat() or unlink() may raise for a file, which is then logged *)
(* with a warning and skipped (failing: the files for which that happens). *)
(* The step puts out its log: the files warned about and deleted_count.    *)
(***************************************************************************)
OldFiles == { f \in Globbed(files) : IsOld(files, f, now) }

\* the output files the registry holds for its completed jobs
CompletedFiles ==
    { download_progress[i].filepath :
        i \in { k \in DOMAIN download_progress :
                   download_progress[k].status = "completed" } }

\* clean_old_files with the try around the loop only: the first failure
\* ends the sweep (taken here before any file is unlinked)
Sweep_aborting(failing) ==
    LET deleted == IF failing = {} THEN OldFiles ELSE {}
    IN  /\ files' = Without(files, deleted)
        /\ reaped' = reaped \cup (deleted \cap CompletedFiles)
        /\ response' = [route |-> "clean_old_files", code |-> 0,
                        warned |-> failing,
                        deleted_count |-> Cardinality(deleted)]

Sweep(failing) ==
    LET deleted == OldFiles \ failing
    IN  /\ files' = Without(files, deleted)
        /\ reaped' = reaped \cup (deleted \cap CompletedFiles)
        /\ response' = [route |-> "clean_old_files", code |-> 0,
                        warned |-> failing,
                        deleted_count |-> Cardinality(deleted)]

\* __main__ (lines 422-446): the sweep, then app.run
Main ==
    /\ server = "boot"
    /\ \E failing \in SUBSET Globbed(files) : Sweep(failing)
    /\ server' = "serving"
    /\ UNCHANGED <<now, download_progress, workers, started, getfile>>

\* A further launch of the script on the same host while this server runs
\* (__main__ again, in another process): it shares TEMP_DOWNLOAD_FOLDER,
\* not the registry, and sweeps before its own app.run.
OtherLaunch ==
    /\ server = "serving"
    /\ \E failing \in SUBSET Globbed(files) : Sweep(failing)
    /\ UNCHANGED <<now, server, download_progress, workers, started, getfile>>

(***************************************************************************)
(* POST /api/download (download_video, lines 222-264).                     *)
(***************************************************************************)
\* lines 241-245
StartingEntry == [status |-> "starting", progress |-> 0, filename |-> None]

\* lines 227-235: the request is answered 400 before anything is created
Rejected(data) ==
    \/ data = NoData
    \/ Strip(data.url) = <<>>

\* registry[key] = entry: the whole entry is replaced
Put(registry, key, entry) == (key :> entry) @@ registry

\* download_video without lines 241-245: the entry is left to the first
\* write of the worker
download_video_late(data) ==
    /\ server = "serving"
    /\ IF Rejected(data)
       THEN /\ response' = [route |-> "download", code |-> 400]
            /\ UNCHANGED <<download_progress, workers, started>>
       ELSE LET url == Strip(data.url)
                clean_url == clean_of[url]
                download_id == download_id_at(now)
            IN  \* clean_url goes to the log (line 247) and to the worker,
                \* which hands it to the backend; every outcome of the
                \* backend is possible for every URL, so the state of a
                \* worker holds no URL
                /\ started < MaxJobs
                /\ UNCHANGED download_progress
                /\ workers' = workers (+) SetToBag(
                       {[download_id |-> download_id,
                         format_type |-> data.format_type,
                         quality |-> data.quality,
                         pc |-> "start", reported |-> 0]})
                /\ started' = started + 1
                /\ response' = [route |-> "download", code |-> 200,
                                 download_id |-> download_id,
                                 clean_url |-> clean_url]
    /\ UNCHANGED <<now, server, files, reaped, getfile>>

download_video(data) ==
    /\ server = "serving"
    /\ IF Rejected(data)
       THEN /\ response' = [route |-> "download", code |-> 400]
            /\ UNCHANGED <<download_progress, workers, started>>
       ELSE LET url == Strip(data.url)
                clean_url == clean_of[url]
                download_id == download_id_at(now)
            IN  \* clean_url goes to the log (line 247) and to the worker,
                \* which hands it to the backend; every outcome of the
                \* backend is possible for every URL, so the state of a
                \* worker holds no URL
                /\ started < MaxJobs
                /\ download_progress' =
                       Put(download_progress, download_id, StartingEntry)
                /\ workers' = workers (+) SetToBag(
                       {[download_id |-> download_id,
                         format_type |-> data.format_type,
                         quality |-> data.quality,
                         pc |-> "start", reported |-> 0]})
                /\ started' = started + 1
                /\ response' = [route |-> "download", code |-> 200,
                                 download_id |-> download_id,
                                 clean_url |-> clean_url]
    /\ UNCHANGED <<now, server, files, reaped, getfile>>

(***************************************************************************)
(* download_worker (lines 266-367).                                        *)
(***************************************************************************)
\* lines 306-338: ydl_opts['format'], or the exception the selection raises
\* (quality.endswith of a value that is no string); "" when no format is set
ydl_format(format_type, quality, has_ffmpeg) ==
    IF format_type = "audio"
    THEN [raises |-> FALSE,
          format |-> IF quality.isstr /\ quality.text = "m4a"
                     THEN "bestaudio[ext=m4a]/bestaudio" ELSE "bestaudio"]
    ELSE IF quality.isstr /\ quality.text = "Mejor calidad"
    THEN [raises |-> FALSE,
          format |-> IF has_ffmpeg
                     THEN "bestvideo[ext=mp4]+bestaudio[ext=m4a]/best"
                     ELSE "best[ext=mp4]/best"]
    ELSE IF ~quality.isstr
    THEN [raises |-> TRUE, format |-> ""]
    ELSE IF quality.endswith_p
    THEN [raises |-> FALSE,
          format |-> IF has_ffmpeg
                     THEN "bestvideo[height<=H][ext=mp4]+bestaudio[ext=m4a]/best[height<=H]"
                     ELSE "best[height<=H][ext=mp4]/best[height<=H]"]
    ELSE [raises |-> FALSE, format |-> ""]

\* the bag of threads after the function of thread w has returned (the
\* thread is gone), after w has become w2, and after w has moved to position
\* pc, where no callback of an earlier position counts any more
Returned(w) == workers (-) SetToBag({w})
Became(w, w2) == Returned(w) (+) SetToBag({w2})
At(w, pc) == Became(w, [w EXCEPT !.pc = pc, !.reported = 0])

\* what str(e) is: the text of an exception of the format selection, and
\* of one raised by the backend
Messages == {"AttributeError", "DownloadError"}

\* lines 363-367
ErrorEntry(message) == [status |-> "error", progress |-> 0, error |-> message]

\* worker_except without its registry write: the exception is only logged
worker_except_lost(w, message) ==
    /\ workers' = Returned(w)
    /\ UNCHANGED download_progress

\* worker_except binding the registry to a new dict that holds the error
\* entry alone
worker_except_rebind(w, message) ==
    /\ download_progress' = (w.download_id :> ErrorEntry(message))
    /\ workers' = Returned(w)

\* worker_except with dict.update in the place of the assignment: the keys
\* of the error entry are merged into the entry that is there
worker_except_merging(w, message) ==
    /\ download_progress' =
           Put(download_progress, w.download_id,
               ErrorEntry(message) @@ download_progress[w.download_id])
    /\ workers' = Returned(w)

\* the except clause of download_worker (lines 361-367): the exception is
\* logged, the entry of the worker's own id becomes the error entry, and
\* the thread's function returns
worker_except(w, message) ==
    /\ download_progress' =
           Put(download_progress, w.download_id, ErrorEntry(message))
    /\ workers' = Returned(w)

\* lines 269-338: the probe for ffmpeg and the choice of the format
worker_start(w) ==
    /\ BagIn(w, workers)
    /\ w.pc = "start"
    /\ \E has_ffmpeg \in BOOLEAN :
         IF ydl_format(w.format_type, w.quality, has_ffmpeg).raises
         THEN worker_except(w, "AttributeError")
         ELSE /\ workers' = At(w, "download")
              /\ UNCHANGED download_progress
    /\ UNCHANGED <<now, server, started, files, reaped, getfile>>
    /\ response' = NoResponse

(***************************************************************************)
(* progress_hook (lines 272-294).                                          *)
(***************************************************************************)
\* a number of a callback payload, as opposed to None
Num(n) == [num |-> n]
IsNum(v) == "num" \in DOMAIN v

\* the payloads d the backend calls the hook of job download_id with
HookEvents(download_id) ==
    { [status |-> "downloading", downloaded_bytes |-> Num(1),
       total_bytes |-> Num(TotalBytes)],
      [status |-> "downloading", downloaded_bytes |-> Num(TotalBytes),
       total_bytes |-> Num(TotalBytes)],
      [status |-> "downloading", downloaded_bytes |-> Num(1), total_bytes |-> None],
      [status |-> "downloading", downloaded_bytes |-> Num(1), total_bytes |-> Num(0)],
      [status |-> "downloading", downloaded_bytes |-> Num(TotalBytes + 1),
       total_bytes_estimate |-> Num(TotalBytes)],
      [status |-> "downloading", downloaded_bytes |-> Num(1)],
      [status |-> "error"] }
    \cup { [status |-> "finished", filename |-> output_template(i, t)] :
             i \in {download_id}, t \in Titles }

\* round((a / b) * 100, 1), in tenths of a percent: the nearest tenth,
\* a tie going to the even one
Round1(a, b) ==
    LET q == (1000 * a) \div b
        r == (1000 * a) % b
    IN  IF 2 * r < b THEN q
        ELSE IF 2 * r > b THEN q + 1
        ELSE IF q % 2 = 0 THEN q ELSE q + 1

\* (d['downloaded_bytes'] / d[total]) * 100 raises: a missing key, an
\* operand that is None, a division by zero
DivisionRaises(d, total) ==
    \/ "downloaded_bytes" \notin DOMAIN d
    \/ ~IsNum(d.downloaded_bytes)
    \/ ~IsNum(d[total])
    \/ d[total].num = 0

\* lines 275-280, for a payload whose status is 'downloading'
HookRaises(d) ==
    IF "total_bytes" \in DOMAIN d THEN DivisionRaises(d, "total_bytes")
    ELSE IF "total_bytes_estimate" \in DOMAIN d
    THEN DivisionRaises(d, "total_bytes_estimate")
    ELSE FALSE

Percent(d) ==
    IF "total_bytes" \in DOMAIN d
    THEN Round1(d.downloaded_bytes.num, d.total_bytes.num)
    ELSE IF "total_bytes_estimate" \in DOMAIN d
    THEN Round1(d.downloaded_bytes.num, d.total_bytes_estimate.num)
    ELSE 0

\* lines 282-286
DownloadingEntry(d) ==
    [status |-> "downloading", progress |-> Percent(d), filename |-> None]

\* lines 288-292, with a file path added to the entry
ProcessingEntry_withpath(d) ==
    [status |-> "processing", progress |-> 1000,
     filename |-> IF "filename" \in DOMAIN d THEN d.filename ELSE None,
     filepath |-> IF "filename" \in DOMAIN d THEN d.filename ELSE None]

\* lines 288-292; d.get('filename') is None without the key
ProcessingEntry(d) ==
    [status |-> "processing", progress |-> 1000,
     filename |-> IF "filename" \in DOMAIN d THEN d.filename ELSE None]

\* The callbacks of the backend of worker w, payload d included, are
\* 'downloading' ones that report bytes that do not decrease, against the
\* known total TotalBytes ('finished' may follow the report of the total).
InSequence(w, d) ==
    /\ w.reported >= 0
    /\ d.status = "downloading"
    /\ "total_bytes" \in DOMAIN d
    /\ d.total_bytes = Num(TotalBytes)
    /\ d.downloaded_bytes.num >= w.reported
Reported(w, d) ==
    IF InSequence(w, d) THEN d.downloaded_bytes.num
    ELSE IF d.status = "finished" /\ w.reported = TotalBytes THEN w.reported
    ELSE 0 - 1

\* the hook called by the backend inside extract_info, on the worker's
\* thread; an exception in it is logged and nothing is written
progress_hook(w, d) ==
    /\ BagIn(w, workers)
    /\ w.pc = "download"
    /\ d \in HookEvents(w.download_id)
    /\ IF d.status = "downloading" /\ ~HookRaises(d)
       THEN download_progress' =
                Put(download_progress, w.download_id, DownloadingEntry(d))
       ELSE IF d.status = "finished"
       THEN download_progress' =
                Put(download_progress, w.download_id, ProcessingEntry(d))
       ELSE UNCHANGED download_progress
    /\ workers' = Became(w, [w EXCEPT !.reported = Reported(w, d)])
    /\ UNCHANGED <<now, server, started, files, reaped, getfile>>
    /\ response' = NoResponse

(***************************************************************************)
(* download_worker, from the call of the backend on (lines 340-367).       *)
(***************************************************************************)
\* lines 352-357: os.path.basename(filename) is the path without its folder;
\* the folder being the same for every file, both are the same record here
CompletedEntry(filename) ==
    [status |-> "completed", progress |-> 1000,
     filename |-> filename, filepath |-> filename]

\* lines 341-357: extract_info returns, having written the output file;
\* prepare_filename gives its path and the entry becomes 'completed'
extract_info_returns(w) ==
    /\ BagIn(w, workers)
    /\ w.pc = "download"
    /\ \E title \in Titles :
         LET filename == output_template(w.download_id, title)
         IN  /\ files' = Put(files, filename, now)
             /\ download_progress' =
                    Put(download_progress, w.download_id,
                        CompletedEntry(filename))
    /\ workers' = At(w, "closing")
    /\ UNCHANGED <<now, server, started, reaped, getfile>>
    /\ response' = NoResponse

\* line 341: extract_info raises (network, format not available, a
\* postprocessor that fails)
extract_info_raises(w) ==
    /\ BagIn(w, workers)
    /\ w.pc = "download"
    /\ worker_except(w, "DownloadError")
    /\ UNCHANGED <<now, server, started, files, reaped, getfile>>
    /\ response' = NoResponse

\* the end of the with block (line 359): YoutubeDL.__exit__ returns
ydl_exit(w) ==
    /\ BagIn(w, workers)
    /\ w.pc = "closing"
    /\ workers' = Returned(w)
    /\ UNCHANGED <<now, server, download_progress, started, files, reaped, getfile>>
    /\ response' = NoResponse

\* the end of the with block, YoutubeDL.__exit__ raising (it closes the
\* backend and saves the cookie file): the with block lies inside the try,
\* so the except clause runs after the 'completed' write
ydl_exit_raises(w) ==
    /\ BagIn(w, workers)
    /\ w.pc = "closing"
    /\ worker_except(w, "DownloadError")
    /\ UNCHANGED <<now, server, started, files, reaped, getfile>>
    /\ response' = NoResponse

(***************************************************************************)
(* GET /api/download-file/<download_id> (download_file, lines 375-399).    *)
(***************************************************************************)
\* download_progress.get(download_id)
Get(registry, key) == IF key \in DOMAIN registry THEN registry[key] ELSE None

\* progress.get('filepath')
FilepathOf(progress) ==
    IF "filepath" \in DOMAIN progress THEN progress.filepath ELSE None

\* lines 381-388 without the test of the status, and with the file name
\* standing in for a missing file path
download_file_check_loose(progress, fs) ==
    IF progress = None THEN 404
    ELSE LET filepath == IF FilepathOf(progress) # None
                         THEN FilepathOf(progress)
                         ELSE IF "filename" \in DOMAIN progress
                         THEN progress.filename ELSE None
         IN  IF filepath = None \/ filepath \notin DOMAIN fs THEN 404 ELSE 0

\* lines 381-388: 404, or 0 when the handler goes on to send_file
download_file_check(progress, fs) ==
    IF progress = None \/ progress.status # "completed" THEN 404
    ELSE IF FilepathOf(progress) = None \/ FilepathOf(progress) \notin DOMAIN fs
    THEN 404
    ELSE 0

\* the ids a client asks for: those it was given, and one of an earlier run
AskedIds == DOMAIN download_progress \cup {OldFile.id}

\* lines 379-388
download_file_begin(download_id) ==
    /\ server = "serving"
    /\ getfile.pc = "idle"
    /\ download_id \in AskedIds
    /\ LET progress == Get(download_progress, download_id)
       IN  IF download_file_check(progress, files) = 404
           THEN /\ response' = [route |-> "download-file", code |-> 404,
                                 download_id |-> download_id]
                /\ UNCHANGED getfile
           ELSE /\ getfile' = [pc |-> "send", download_id |-> download_id,
                                progress |-> progress]
                /\ response' = NoResponse
    /\ UNCHANGED <<now, server, download_progress, workers, started, files,
                   reaped>>

\* lines 390-399: send_file opens the file, or raises when it is gone,
\* which the handler answers with 500
download_file_send ==
    /\ getfile.pc = "send"
    /\ response' = [route |-> "download-file",
                    code |-> IF FilepathOf(getfile.progress) \in DOMAIN files
                             THEN 200 ELSE 500,
                    download_id |-> getfile.download_id]
    /\ getfile' = [pc |-> "idle"]
    /\ UNCHANGED <<now, server, download_progress, workers, started, files,
                   reaped>>

(***************************************************************************)
(* GET /api/progress/<download_id> (get_progress, lines 369-373).          *)
(***************************************************************************)
\* the default of line 372
NotFound == [status |-> "not_found"]

\* download_progress.get(download_id, default)
GetOr(registry, key, default) ==
    IF key \in DOMAIN registry THEN registry[key] ELSE default

\* JSON's null
Null == [null |-> TRUE]

\* jsonify(progress): the JSON object with the keys of the dict; strings and
\* numbers are kept, None (a file name or path that is not there) becomes null
jsonify(progress) ==
    [k \in DOMAIN progress |->
        IF k \in {"filename", "filepath"} /\ progress[k] = None
        THEN Null ELSE progress[k]]

\* get_progress with dict.setdefault in the place of dict.get
get_progress_setdefault(download_id) ==
    /\ server = "serving"
    /\ download_id \in AskedIds
    /\ download_progress' =
           IF download_id \in DOMAIN download_progress THEN download_progress
           ELSE Put(download_progress, download_id, NotFound)
    /\ response' = [route |-> "progress", code |-> 200,
                    download_id |-> download_id,
                    body |-> jsonify(GetOr(download_progress, download_id, NotFound))]
    /\ UNCHANGED <<now, server, workers, started, files, reaped, getfile>>

\* get_progress answering from the entry as it was created
get_progress_stale(download_id) ==
    /\ server = "serving"
    /\ download_id \in AskedIds
    /\ response' = [route |-> "progress", code |-> 200,
                    download_id |-> download_id,
                    body |-> jsonify(IF download_id \in DOMAIN download_progress
                                     THEN StartingEntry ELSE NotFound)]
    /\ UNCHANGED <<now, server, download_progress, workers, started, files,
                   reaped, getfile>>

\* lines 372-373
get_progress(download_id) ==
    /\ server = "serving"
    /\ download_id \in AskedIds
    /\ response' = [route |-> "progress", code |-> 200,
                    download_id |-> download_id,
                    body |-> jsonify(GetOr(download_progress, download_id, NotFound))]
    /\ UNCHANGED <<now, server, download_progress, workers, started, files,
                   reaped, getfile>>

(***************************************************************************)
(* POST /api/video-info (get_video_info, lines 155-220).                   *)
(***************************************************************************)
\* what ydl.extract_info(clean_url, download=False) and the lines after it
\* do: the info is there, the backend raises DownloadError, or something
\* else raises
InfoOutcomes == {"info", "DownloadError", "Exception"}

\* lines 160-171: the request is answered 400 before the backend is called
InfoRejected(data) ==
    \/ data = NoData
    \/ Strip(data.url) = <<>>
    \/ ~valid_of[Strip(data.url)]

\* the answer of get_video_info
video_info_response(data, outcome) ==
    IF InfoRejected(data)
    THEN [route |-> "video-info", code |-> 400]
    ELSE IF outcome = "info"
    THEN [route |-> "video-info", code |-> 200,
          clean_url |-> clean_of[Strip(data.url)]]
    ELSE [route |-> "video-info", code |-> 500, error |-> outcome]

\* get_video_info keeping the metadata request in the registry
get_video_info_registering(data) ==
    /\ server = "serving"
    /\ response' \in { video_info_response(data, outcome) :
                         outcome \in InfoOutcomes }
    /\ download_progress' =
           IF InfoRejected(data) THEN download_progress
           ELSE Put(download_progress, download_id_at(now), StartingEntry)
    /\ UNCHANGED <<now, server, workers, started, files, reaped, getfile>>

get_video_info(data) ==
    /\ server = "serving"
    /\ response' \in { video_info_response(data, outcome) :
                         outcome \in InfoOutcomes }
    /\ UNCHANGED <<now, server, download_progress, workers, started, files,
                   reaped, getfile>>

(***************************************************************************)
(* The system.                                                             *)
(***************************************************************************)
Next ==
    \/ TickSmall
    \/ TickBig
    \/ Main
    \/ OtherLaunch
    \/ \E data \in Bodies : download_video(data)
    \/ \E w \in BagToSet(workers) : worker_start(w)
    \/ \E w \in BagToSet(workers) :
         \E d \in HookEvents(w.download_id) : progress_hook(w, d)
    \/ \E w \in BagToSet(workers) : extract_info_returns(w)
    \/ \E w \in BagToSet(workers) : extract_info_raises(w)
    \/ \E w \in BagToSet(workers) : ydl_exit(w)
    \/ \E w \in BagToSet(workers) : ydl_exit_raises(w)
    \/ \E download_id \in AskedIds : download_file_begin(download_id)
    \/ download_file_send
    \/ \E download_id \in AskedIds : get_progress(download_id)
    \/ \E data \in InfoBodies : get_video_info(data)

Spec == Init /\ [][Next]_vars

\* the values of the clock, the job ids and the local states of a worker
Times == { b * BigTick + s : b \in 0..MaxBigTicks, s \in Offsets }
JobIds == { download_id_at(t) : t \in Times }
WorkerStates ==
    [download_id : JobIds, format_type : {"video"},
     quality : {QualityBest, QualityNumber}, pc : {"start", "download", "closing"},
     reported : (0 - 1)..TotalBytes]

\* the steps of worker w other than the callbacks of the backend
WorkerStep(w) ==
    \/ worker_start(w)
    \/ extract_info_returns(w)
    \/ extract_info_raises(w)
    \/ ydl_exit(w)
    \/ ydl_exit_raises(w)

\* a step of a worker of job download_id
JobStep(download_id) ==
    \E w \in BagToSet(workers) : w.download_id = download_id /\ WorkerStep(w)

\* Threads are scheduled fairly and the backend call returns or raises: the
\* workers of a job that can take a step eventually take one.
FairSpec == Spec /\ \A download_id \in JobIds : WF_vars(JobStep(download_id))

(***************************************************************************)
(* Properties.                                                             *)
(***************************************************************************)
Terminal == {"completed", "error"}

StatusOf(i) == download_progress[i].status

\* the position of a status on the path starting -> downloading ->
\* processing -> completed
Rank(status) ==
    CASE status = "starting" -> 0
      [] status = "downloading" -> 1
      [] status = "processing" -> 2
      [] status = "completed" -> 3
      [] OTHER -> 4

\* C1: once the entry of a job id is 'completed' or 'error', no step changes
\* its status.
TerminalAbsorbing ==
    [][\A i \in DOMAIN download_progress :
         StatusOf(i) \in Terminal =>
             download_progress'[i].status = StatusOf(i)]_vars

\* C2: every change of the status of an entry moves forward on the path
\* starting -> downloading -> processing -> completed, or goes from one of
\* starting, downloading, processing to error.
StatusMonotonic ==
    [][\A i \in DOMAIN download_progress :
         LET old == StatusOf(i)
             new == download_progress'[i].status
         IN  new # old =>
               /\ old \notin Terminal
               /\ new = "error" \/ Rank(new) > Rank(old)]_vars

\* C3: an accepted POST /api/download is given an id that no earlier request
\* was given, so it overwrites no entry of the registry.
IdsNeverReused ==
    [][(response'.route = "download" /\ response'.code = 200) =>
           response'.download_id \notin DOMAIN download_progress]_vars

\* C4: no two worker threads write the same registry key: the threads that
\* run hold different job ids.
OneWriterPerKey ==
    \A w \in BagToSet(workers) :
        /\ CopiesIn(w, workers) = 1
        /\ \A v \in BagToSet(workers) : v # w => v.download_id # w.download_id

Fails(w) ==
    \/ worker_start(w) /\ ydl_format(w.format_type, w.quality, TRUE).raises
    \/ extract_info_raises(w)
    \/ ydl_exit_raises(w)

\* C6: when a step of a worker fails, the entry of the worker's own job id
\* becomes an error entry with a message, the thread's function returns (no
\* other thread and no handler is affected), and the entries of all other
\* job ids stay as they are.
WorkerFailureBoundary ==
    [][\A w \in BagToSet(workers) :
         Fails(w) =>
           /\ DOMAIN download_progress' = DOMAIN download_progress
           /\ download_progress'[w.download_id].status = "error"
           /\ download_progress'[w.download_id].error \in Messages
           /\ \A i \in DOMAIN download_progress \ {w.download_id} :
                  download_progress'[i] = download_progress[i]
           /\ workers' = workers (-) SetToBag({w})
           /\ UNCHANGED <<server, getfile, files>>]_vars

\* C6, witness: a worker has failed while the registry holds another job,
\* whose entry is no error entry.
FailedBesideOther ==
    \E i, j \in DOMAIN download_progress :
        /\ i # j
        /\ StatusOf(i) = "error"
        /\ StatusOf(j) \in {"downloading", "processing", "completed"}

\* C7: an entry carries a file path exactly when its status is 'completed'.
FilepathIffCompleted ==
    \A i \in DOMAIN download_progress :
        (FilepathOf(download_progress[i]) # None) <=> (StatusOf(i) = "completed")

\* C7, witness: the registry holds a completed entry beside one that is not.
CompletedBesideOther ==
    \E i, j \in DOMAIN download_progress :
        /\ StatusOf(i) = "completed"
        /\ StatusOf(j) \in {"processing", "error"}

\* C8: GET /api/download-file for an id without an entry, or whose entry is
\* not 'completed' when it is checked, is answered 404; the handler goes on
\* to send a file only for a completed entry, and only send_file answers 200.
NeverServesUncompleted ==
    [][/\ \A i \in AskedIds :
            (/\ download_file_begin(i)
             /\ Get(download_progress, i) = None
                  \/ Get(download_progress, i).status # "completed")
            => /\ response' = [route |-> "download-file", code |-> 404,
                               download_id |-> i]
               /\ getfile'.pc = "idle"
       /\ getfile'.pc = "send" => getfile'.progress.status = "completed"
       /\ (response'.route = "download-file" /\ response'.code = 200)
            => /\ getfile.pc = "send"
               /\ getfile.progress.status = "completed"]_vars

\* C8, witness: a request for a job that is not completed has been answered
\* 404 while an output file of that job is on disk.
RefusedWithFileOnDisk ==
    /\ response.route = "download-file"
    /\ response.code = 404
    /\ response.download_id \in DOMAIN download_progress
    /\ StatusOf(response.download_id) # "completed"
    /\ \E t \in Titles : output_template(response.download_id, t) \in DOMAIN files

\* C9: once clean_old_files has deleted the output file of a completed job,
\* GET /api/progress keeps reporting 'completed' for it and no
\* GET /api/download-file for it is answered with the file.
ReapedStaysGone ==
    [][/\ \A i \in DOMAIN download_progress :
            (StatusOf(i) = "completed" /\ download_progress[i].filepath \in reaped)
            => download_progress'[i].status = "completed"
       /\ (response'.route = "download-file" /\ response'.code = 200)
            => FilepathOf(getfile.progress) \notin reaped]_vars

\* C10: a POST /api/download without a URL, or with a URL that
\* is_valid_youtube_url rejects, is answered 400, creates no entry and starts
\* no worker.
ValidationGatesDownload ==
    [][\A data \in Bodies :
         (/\ download_video(data)
          /\ \/ Rejected(data)
             \/ ~valid_of[Strip(data.url)])
         => /\ response'.code = 400
            /\ UNCHANGED <<download_progress, workers, started>>]_vars

\* C11: GET /api/progress for an id without an entry is answered 200 with
\* exactly {status: 'not_found'}, and the registry stays as it is: no entry
\* is created for the id.
UnknownIdReadHarmless ==
    [][\A i \in AskedIds :
         (get_progress(i) /\ i \notin DOMAIN download_progress)
         => /\ response'.route = "progress"
            /\ response'.code = 200
            /\ response'.body = [status |-> "not_found"]
            /\ download_progress' = download_progress
            /\ i \notin DOMAIN download_progress']_vars

\* C11, witness: an unknown id has been polled while the registry holds a
\* job, and the answer was the sentinel.
UnknownIdPolled ==
    /\ response.route = "progress"
    /\ response.body = [status |-> "not_found"]
    /\ response.download_id \notin DOMAIN download_progress
    /\ download_progress # <<>>

\* C12: a poll of a job id is answered with the entry the most recent write
\* to that id has stored, key by key (None read as null): 'starting' with
\* progress 0 when the poll follows the creation of the entry, and the
\* completed entry with its file path and name once that has been written.
ReadsLastWrite ==
    [][\A i \in DOMAIN download_progress :
         get_progress(i) =>
           LET entry == download_progress[i]
               body == response'.body
           IN  /\ response'.code = 200
               /\ DOMAIN body = DOMAIN entry
               /\ body.status = entry.status
               /\ body.progress = entry.progress
               /\ entry.status = "completed" =>
                      /\ body.filepath = entry.filepath
                      /\ body.filename = entry.filename
               /\ entry.status = "error" => body.error = entry.error
               /\ (/\ response.route = "download"
                   /\ response.code = 200
                   /\ response.download_id = i)
                  => body = [status |-> "starting", progress |-> 0,
                             filename |-> Null]]_vars

\* C12, witness: a poll has been answered with a completed entry, its file
\* being on disk.
CompletedPolled ==
    /\ response.route = "progress"
    /\ response.body.status = "completed"
    /\ response.body.filepath \in DOMAIN files

\* the output files a job of this run can leave, and the one of an earlier run
OutputFiles ==
    {OldFile} \cup { output_template(i, title) : i \in JobIds, title \in Titles }

\* C13: while the server runs, sweeps keep being invoked: an output file
\* that is on disk and older than MAX_FILE_AGE is eventually deleted (or
\* written anew), without a restart of the process.
StaleEventuallyDeleted ==
    \A f \in OutputFiles :
        (/\ server = "serving"
         /\ f \in DOMAIN files
         /\ now - files[f] > MAX_FILE_AGE * TicksPerSecond)
        ~> (\/ f \notin DOMAIN files
            \/ now - files[f] <= MAX_FILE_AGE * TicksPerSecond)

\* C14: a sweep deletes a file of the folder exactly when its name begins
\* with 'yt_download_', its age (the time of the sweep minus its st_mtime) is
\* strictly greater than MAX_FILE_AGE and its deletion does not fail; every
\* other file is left as it is, and no file appears.
SweepDeletesExactlyStale ==
    [][response'.route = "clean_old_files" =>
         /\ DOMAIN files' \subseteq DOMAIN files
         /\ \A f \in DOMAIN files :
              /\ (f \notin DOMAIN files') <=>
                     (/\ f.prefix = "yt_download_"
                      /\ now - files[f] > MAX_FILE_AGE * TicksPerSecond
                      /\ f \notin response'.warned)
              /\ f \in DOMAIN files' => files'[f] = files[f]]_vars

\* C14, witness: a sweep has deleted a file and has left a file of another
\* name as well as an output file whose age is exactly MAX_FILE_AGE.
SweptBesideYoungAndForeign ==
    /\ response.route = "clean_old_files"
    /\ response.deleted_count > 0
    /\ ForeignFile \in DOMAIN files
    /\ \E f \in Globbed(files) : now - files[f] = MAX_FILE_AGE * TicksPerSecond

\* C15: in a sweep, a file whose stat() or unlink() fails is skipped with a
\* warning, every other old output file is deleted in the same sweep, and
\* the sweep returns to its caller: the main thread goes on to serve, and
\* registry, workers and requests are not touched.
SweepIsolatesFailures ==
    [][response'.route = "clean_old_files" =>
         /\ \A f \in response'.warned : f \in DOMAIN files'
         /\ \A f \in DOMAIN files :
              (/\ f.prefix = "yt_download_"
               /\ now - files[f] > MAX_FILE_AGE * TicksPerSecond
               /\ f \notin response'.warned)
              => f \notin DOMAIN files'
         /\ server' = "serving"
         /\ UNCHANGED <<download_progress, workers, started, getfile>>]_vars

\* C15, witness: a sweep has failed on an old output file, which is still
\* there, and has deleted another.
SweptPastFailure ==
    /\ response.route = "clean_old_files"
    /\ \E f \in response.warned :
          /\ f \in DOMAIN files
          /\ now - files[f] > MAX_FILE_AGE * TicksPerSecond
    /\ response.deleted_count > 0

\* C16: the 'progress' of every entry of the registry lies between 0 and 100
\* (0 and 1000 tenths of a percent), whatever the callbacks report.
ProgressInRange ==
    \A i \in DOMAIN download_progress :
        /\ download_progress[i].progress >= 0
        /\ download_progress[i].progress <= 1000

\* C17: while the callbacks of a job's backend are 'downloading' ones with
\* bytes that do not decrease against a fixed total, no callback lowers the
\* 'progress' of the job's entry, and the callback that reports the total
\* sets it to 100.
ProgressMonotonic ==
    [][\A w \in BagToSet(workers) :
         \A d \in HookEvents(w.download_id) :
           (progress_hook(w, d) /\ InSequence(w, d)) =>
             LET i == w.download_id
             IN  /\ download_progress'[i].progress >= download_progress[i].progress
                 /\ d.downloaded_bytes.num = TotalBytes
                        => download_progress'[i].progress = 1000]_vars

\* a total of a payload that can be divided by: present, a number, not zero
Usable(d, total) ==
    /\ total \in DOMAIN d
    /\ IsNum(d[total])
    /\ d[total].num # 0

\* C18: every 'downloading' callback writes a 'downloading' entry for its
\* job, with the bytes downloaded over the known total if there is one,
\* otherwise over the estimated total if there is one, otherwise 0; a total
\* that is present but zero or None counts as not there.
HookAlwaysWrites ==
    [][\A w \in BagToSet(workers) :
         \A d \in HookEvents(w.download_id) :
           (progress_hook(w, d) /\ d.status = "downloading") =>
             download_progress'[w.download_id] =
                 [status |-> "downloading",
                  progress |->
                      IF Usable(d, "total_bytes")
                      THEN Round1(d.downloaded_bytes.num, d.total_bytes.num)
                      ELSE IF Usable(d, "total_bytes_estimate")
                      THEN Round1(d.downloaded_bytes.num,
                                  d.total_bytes_estimate.num)
                      ELSE 0,
                  filename |-> None]]_vars

\* C19: POST /api/video-info, whether it is answered 200, 400 or 500, leaves
\* the registry as it is, starts no worker and writes no file.
VideoInfoLeavesRegistry ==
    [][response'.route = "video-info" =>
         /\ response'.code \in {200, 400, 500}
         /\ download_progress' = download_progress
         /\ workers' = workers
         /\ started' = started
         /\ files' = files]_vars

\* C19, witness: a metadata request has ended in 500 while the registry
\* holds a job whose worker runs.
VideoInfoFailedBesideJob ==
    /\ response.route = "video-info"
    /\ response.code = 500
    /\ download_progress # <<>>
    /\ workers # EmptyBag

\* the URLs of the model in which neither host pattern of the validation is
\* found
NonMatching ==
    { url \in StrippedUrls :
        ~Search(url, YoutubePattern1) /\ ~Search(url, YoutubePattern2) }

\* C20: for a URL in which neither host pattern of the validation is found,
\* the validation fails (POST /api/video-info is answered 400) and the
\* normalisation gives the URL back unchanged (POST /api/download hands the
\* URL as it is to its log and worker).
NonMatchingUnchanged ==
    [][\A data \in Bodies \ {NoData} :
         LET url == Strip(data.url)
         IN  (url # <<>> /\ url \in NonMatching)
             => /\ get_video_info([url |-> data.url]) => response'.code = 400
                /\ download_video(data) => response'.clean_url = url]_vars

\* C21: an id that POST /api/download has given out has an entry from that
\* step on: the answer 200 and the start of the worker come with the entry,
\* every running worker has one, no step removes an entry, and a poll of an
\* id that has an entry is never answered 'not_found'.
IssuedIdKnown ==
    [][/\ DOMAIN download_progress \subseteq DOMAIN download_progress'
       /\ (response'.route = "download" /\ response'.code = 200)
              => response'.download_id \in DOMAIN download_progress'
       /\ \A w \in BagToSet(workers') :
              w.download_id \in DOMAIN download_progress'
       /\ \A i \in DOMAIN download_progress :
              get_progress(i) => response'.body.status # "not_found"]_vars

\* C21, witness: an id given out has been polled after every worker has
\* returned, and the answer was its entry.
IssuedIdPolledLate ==
    /\ response.route = "progress"
    /\ response.download_id \in DOMAIN download_progress
    /\ response.body.status \in Terminal
    /\ started = MaxJobs
    /\ workers = EmptyBag

\* the keys of the entry each write stores
EntryKeys(status) ==
    CASE status = "completed" -> {"status", "progress", "filename", "filepath"}
      [] status = "error" -> {"status", "progress", "error"}
      [] OTHER -> {"status", "progress", "filename"}

\* C22: a step changes the entry of at most one job id, the one of the
\* handler that answers or of a worker that runs; the entry it stores has
\* exactly the keys of that write (an error entry has no file name and no
\* file path), and the entries of all other ids stay as they are.
WritesWholesaleKeyLocal ==
    [][/\ \A i, j \in DOMAIN download_progress' :
            (/\ Get(download_progress, i) # download_progress'[i]
             /\ Get(download_progress, j) # download_progress'[j])
            => i = j
       /\ \A i \in DOMAIN download_progress' :
            Get(download_progress, i) # download_progress'[i]
            => /\ DOMAIN download_progress'[i] =
                      EntryKeys(download_progress'[i].status)
               /\ \/ /\ response'.route = "download"
                     /\ response'.download_id = i
                     /\ download_progress'[i] = StartingEntry
                  \/ /\ response' = NoResponse
                     /\ \E w \in BagToSet(workers) : w.download_id = i
       /\ \A w \in BagToSet(workers) :
            (Fails(w) /\ w.download_id \in DOMAIN download_progress)
            => download_progress'[w.download_id] \in
                   [status : {"error"}, progress : {0}, error : Messages]]_vars

\* C22, witness: an error entry has replaced the completed entry of a job
\* whose output file is on disk, beside the entry of another job.
ErrorOverCompleted ==
    \E i, j \in DOMAIN download_progress :
        /\ i # j
        /\ StatusOf(i) = "error"
        /\ "filename" \notin DOMAIN download_progress[i]
        /\ \E title \in Titles : output_template(i, title) \in DOMAIN files
====
